---- MODULE Spec2Model ----
(***************************************************************************)
(* Sanipro: the token filters (sanipro/filters.py, filters/exclude.py),    *)
(* the construction of the command pipeline (commandline/commands.py) and  *)
(* the process entry point (cli.py).                                       *)
(*                                                                         *)
(* A token is a record [name, strength, id].  name is a Python str,        *)
(* modelled as a sequence of characters; strength is the weight, modelled  *)
(* as an integer; id is the identity of the Python object, which is what   *)
(* tells two tokens of equal name and strength apart (it is the position   *)
(* of the token in the input list).                                        *)
(***************************************************************************)
EXTENDS Integers, Sequences, FiniteSets, TLC

\* ---------------------------------------------------------------- bounds
MaxLen == 3
MaxExcludes == 2
MaxRoundup == 1

None == "None"

SeqsUpTo(S, n) == UNION {[1..k -> S] : k \in 0..n}

\* the names, strengths and exclude strings of the inputs: "a" is a proper
\* substring of "ab", "b" contains no exclude string but the empty one
Names == {<<>>, <<"a">>, <<"b">>, <<"a", "b">>}
Strengths == {1, 2, 3}
ExcludeStrings == {<<>>, <<"a">>, <<"a", "b">>}
ExcludeLists == SeqsUpTo(ExcludeStrings, MaxExcludes)
ReplaceStrings == {<<>>, <<"%">>}

RawTokens == [name : Names, strength : Strengths]
WithIds(s) == [i \in 1..Len(s) |-> [name |-> s[i].name, strength |-> s[i].strength, id |-> i]]
Prompts == {WithIds(s) : s \in SeqsUpTo(RawTokens, MaxLen)}

Range(s) == {s[i] : i \in 1..Len(s)}

\* ------------------------------------------------------- python builtins
\* `sub in s` for two str values.
StrIn(sub, s) ==
    \E i \in 0..(Len(s) - Len(sub)) : SubSeq(s, i + 1, i + Len(sub)) = sub

Reverse(s) == [i \in 1..Len(s) |-> s[Len(s) + 1 - i]]

\* Insert x into the ascending list s after every element whose key is not
\* greater than x's (what a stable sort does with the next element).
RECURSIVE InsertStable(_, _)
InsertStable(x, s) ==
    IF s = <<>> THEN <<x>>
    ELSE IF s[Len(s)].strength <= x.strength THEN Append(s, x)
    ELSE Append(InsertStable(x, SubSeq(s, 1, Len(s) - 1)), s[Len(s)])

RECURSIVE StableSort(_)
StableSort(s) ==
    IF s = <<>> THEN <<>>
    ELSE InsertStable(s[Len(s)], StableSort(SubSeq(s, 1, Len(s) - 1)))

\* list.sort(key=lambda x: x.strength, reverse=reverse): the sort is stable;
\* with reverse the list is reversed, sorted ascending and reversed again, so
\* that equal keys keep their order.
list_sort_unstable(v, reverse) ==
    IF reverse THEN Reverse(StableSort(v)) ELSE StableSort(v)

list_sort(v, reverse) ==
    IF reverse THEN Reverse(StableSort(Reverse(v))) ELSE StableSort(v)

\* ------------------------------------------------------------ filters.py
\* Token.replace(replace_to): a copy with the name replaced.
replace(prompt, replace_to) ==
    [name |-> replace_to, strength |-> prompt.strength, id |-> prompt.id]

\* the inner loop of mask for one prompt: the first matching exclude string
\* replaces the name and breaks; the else branch keeps the prompt.
RECURSIVE mask_one_nomatch(_, _, _)
mask_one_nomatch(prompt, excludes, replace_to) ==
    IF excludes = <<>> THEN prompt
    ELSE IF Head(excludes) = prompt.name THEN replace(prompt, replace_to)
    ELSE mask_one_nomatch(prompt, Tail(excludes), replace_to)

RECURSIVE mask_one(_, _, _)
mask_one(prompt, excludes, replace_to) ==
    IF excludes = <<>> THEN prompt
    ELSE IF StrIn(Head(excludes), prompt.name) THEN replace(prompt, replace_to)
    ELSE mask_one(prompt, Tail(excludes), replace_to)

RECURSIVE mask(_, _, _)
mask(prompts, excludes, replace_to) ==
    IF prompts = <<>> THEN <<>>
    ELSE <<mask_one(Head(prompts), excludes, replace_to)>>
             \o mask(Tail(prompts), excludes, replace_to)

\* the inner loop of exclude for one prompt: TRUE when the prompt is
\* appended.  The first exclude string that is NOT in the name appends the
\* prompt and breaks; the else branch (no break) continues without appending.
RECURSIVE exclude_keeps(_, _)
exclude_keeps(prompt, excludes) ==
    IF excludes = <<>> THEN FALSE
    ELSE IF ~StrIn(Head(excludes), prompt.name) THEN TRUE
    ELSE exclude_keeps(prompt, Tail(excludes))

RECURSIVE exclude(_, _)
exclude(prompts, excludes) ==
    IF prompts = <<>> THEN <<>>
    ELSE (IF exclude_keeps(Head(prompts), excludes) THEN <<Head(prompts)>> ELSE <<>>)
             \o exclude(Tail(prompts), excludes)

\* ExcludeCommand.execute: [token for token in prompt if token.name not in self.excludes]
\* (self.excludes is a sequence of str: membership, not substring).
RECURSIVE ExcludeCommand_execute(_, _)
ExcludeCommand_execute(prompt, excludes) ==
    IF prompt = <<>> THEN <<>>
    ELSE (IF Head(prompt).name \notin Range(excludes) THEN <<Head(prompt)>> ELSE <<>>)
             \o ExcludeCommand_execute(Tail(prompt), excludes)

\* The dict u, in insertion order: a sequence of [k, v] items.
dict_has(u, k) == \E i \in 1..Len(u) : u[i].k = k
dict_append(u, k, x) ==
    [i \in 1..Len(u) |-> IF u[i].k = k THEN [k |-> k, v |-> Append(u[i].v, x)] ELSE u[i]]

RECURSIVE collect_same_prompt(_)
collect_same_prompt(prompts) ==
    IF prompts = <<>> THEN <<>>
    ELSE LET u == collect_same_prompt(SubSeq(prompts, 1, Len(prompts) - 1))
             prompt == prompts[Len(prompts)]
         IN  IF dict_has(u, prompt.name)
             THEN dict_append(u, prompt.name, prompt)
             ELSE Append(u, [k |-> prompt.name, v |-> <<prompt>>])

RECURSIVE sort_items(_, _)
sort_items(u, reverse) ==
    IF u = <<>> THEN <<>>
    ELSE list_sort(Head(u).v, reverse) \o sort_items(Tail(u), reverse)

sort(prompts, reverse) == sort_items(collect_same_prompt(prompts), reverse)

\* prompts.append(v.pop(0)) for every item of u, in order.
RECURSIVE unique_items(_, _)
unique_items(u, reverse) ==
    IF u = <<>> THEN <<>>
    ELSE <<Head(list_sort(Head(u).v, reverse))>> \o unique_items(Tail(u), reverse)

\* prompts.insert(0, v.pop(0)) instead of prompts.append(v.pop(0))
unique_insert0(prompts, reverse) ==
    Reverse(unique_items(collect_same_prompt(prompts), reverse))

\* v.pop() instead of v.pop(0)
unique_poplast(prompts, reverse) ==
    LET u == collect_same_prompt(prompts)
    IN  [i \in 1..Len(u) |-> LET v == list_sort(u[i].v, reverse) IN v[Len(v)]]

unique(prompts, reverse) == unique_items(collect_same_prompt(prompts), reverse)

\* ------------------------------------------- commandline/commands.py
\* Commands.command_classes, in order.
command_classes ==
    << "ExcludeCommand", "MaskCommand", "RandomCommand", "ResetCommand",
       "RoundUpCommand", "SimilarCommand", "SortAllCommand", "SortCommand",
       "UniqueCommand" >>

\* cmd.command_id of each command class.
command_id ==
    [c \in Range(command_classes) |->
        CASE c = "ExcludeCommand" -> "exclude"
          [] c = "MaskCommand"    -> "mask"
          [] c = "RandomCommand"  -> "random"
          [] c = "ResetCommand"   -> "reset"
          [] c = "RoundUpCommand" -> "roundup"
          [] c = "SimilarCommand" -> "similar"
          [] c = "SortAllCommand" -> "sort-all"
          [] c = "SortCommand"    -> "sort"
          [] c = "UniqueCommand"  -> "unique"]

\* command_ids = [cmd.command_id for cmd in self.command_classes]
command_ids == [i \in 1..Len(command_classes) |-> command_id[command_classes[i]]]

\* the tuple command_funcs of get_pipeline, in order; each closure is named by
\* the class it constructs.
command_funcs ==
    << "ExcludeCommand", "MaskCommand", "RandomCommand", "ResetCommand",
       "SimilarCommand", "SortAllCommand", "SortCommand", "UniqueCommand" >>

Min(a, b) == IF a < b THEN a ELSE b

\* zip(a, b): pairs up to the shorter of the two.
zip(a, b) == [i \in 1..Min(Len(a), Len(b)) |-> <<a[i], b[i]>>]

\* dict(pairs): the last pair of a key wins.
dict(pairs) ==
    [k \in {pairs[i][1] : i \in 1..Len(pairs)} |->
        LET last == CHOOSE i \in 1..Len(pairs) :
                        /\ pairs[i][1] = k
                        /\ \A j \in (i + 1)..Len(pairs) : pairs[j][1] # k
        IN  pairs[last][2]]

\* calling a closure of command_funcs: the command it constructs, with the
\* modelled attributes of the namespace its constructor is given.
construct(cls, a) ==
    [cls |-> cls,
     params |-> CASE cls \in {"SimilarCommand", "SortAllCommand", "SortCommand", "UniqueCommand"}
                        -> <<a.reverse>>
                  [] cls = "RoundUpCommand" -> <<a.roundup>>
                  [] OTHER -> <<>>]

\* the local pipeline before it is assigned
NoPipeline == [parser |-> None, commands |-> <<>>]

\* get_pipeline_from: the pipeline class follows the parser selector.
get_pipeline_from(use_parser_v2) ==
    [parser |-> IF ~use_parser_v2 THEN "PromptPipelineV1" ELSE "PromptPipelineV2",
     commands |-> <<>>]

append_command(p, cmd) == [p EXCEPT !.commands = Append(@, cmd)]

Roundups == 0..MaxRoundup

\* the class attributes of Commands (verbose counts the -v flags; 0 stands
\* for the None of an absent flag)
Defaults ==
    [use_parser_v2 |-> FALSE, filter |-> None, reverse |-> FALSE,
     roundup |-> 2, verbose |-> 0]

\* the namespaces parse_args can return
ArgsSet ==
    [use_parser_v2 : BOOLEAN,
     filter : Range(command_ids) \cup {None},
     reverse : BOOLEAN,
     roundup : Roundups,
     verbose : 0..1]

\* the exit status of a process that has not exited
Running == -1

\* ------------------------------------------------------------- the state
VARIABLES
    prompts,      \* the token sequence handed to a filter
    op,           \* the filter that produced out ("init" before any)
    excludes,     \* the exclude list of the call
    replace_to,   \* the replacement string of the call
    reverse,      \* the reverse flag of the call
    out,          \* the list the filter returned
    prev,         \* the list returned by the previous application
    pc,           \* position of app() / Commands.get_pipeline
    args,         \* the Commands namespace returned by from_sys_argv
    command_map,  \* the local command_map of get_pipeline
    pipeline,     \* the local pipeline of get_pipeline
    runner,       \* the pipeline get_pipeline returned
    exc,          \* the exception raised in the try block, or None
    logged,       \* logger.exception was called by the except clause
    ran,          \* runner.run() was called
    status        \* the exit status of the process

filter_vars == <<prompts, op, excludes, replace_to, reverse, out, prev>>
cli_vars == <<pc, args, command_map, pipeline, runner, exc, logged, ran, status>>
vars == <<prompts, op, excludes, replace_to, reverse, out, prev,
          pc, args, command_map, pipeline, runner, exc, logged, ran, status>>

\* --------------------------------------------- applying the filters
InitFilters ==
    /\ prompts \in Prompts
    /\ op = "init"
    /\ excludes = <<>>
    /\ replace_to = <<>>
    /\ reverse = FALSE
    /\ out = <<>>
    /\ prev = <<>>
    /\ pc = "start"
    /\ args = Defaults
    /\ command_map = <<>>
    /\ pipeline = NoPipeline
    /\ runner = NoPipeline
    /\ exc = None
    /\ logged = FALSE
    /\ ran = FALSE
    /\ status = Running

ApplyMask ==
    /\ op = "init"
    /\ \E e \in ExcludeLists, r \in ReplaceStrings :
          /\ excludes' = e
          /\ replace_to' = r
          /\ out' = mask(prompts, e, r)
    /\ op' = "mask"
    /\ UNCHANGED <<prompts, reverse, prev>>
    /\ UNCHANGED cli_vars

ApplyExclude ==
    /\ op = "init"
    /\ \E e \in ExcludeLists :
          /\ excludes' = e
          /\ out' = exclude(prompts, e)
    /\ op' = "exclude"
    /\ UNCHANGED <<prompts, replace_to, reverse, prev>>
    /\ UNCHANGED cli_vars

ApplyExcludeCommand ==
    /\ op = "init"
    /\ \E e \in ExcludeLists :
          /\ excludes' = e
          /\ out' = ExcludeCommand_execute(prompts, e)
    /\ op' = "ExcludeCommand"
    /\ UNCHANGED <<prompts, replace_to, reverse, prev>>
    /\ UNCHANGED cli_vars

ApplySort ==
    /\ op = "init"
    /\ \E r \in BOOLEAN :
          /\ reverse' = r
          /\ out' = sort(prompts, r)
    /\ op' = "sort"
    /\ UNCHANGED <<prompts, excludes, replace_to, prev>>
    /\ UNCHANGED cli_vars

ApplyUnique ==
    /\ op = "init"
    /\ \E r \in BOOLEAN :
          /\ reverse' = r
          /\ out' = unique(prompts, r)
    /\ op' = "unique"
    /\ UNCHANGED <<prompts, excludes, replace_to, prev>>
    /\ UNCHANGED cli_vars

\* Unique applied to the result of Unique, with the same flag.
ApplyUniqueAgain ==
    /\ op = "unique"
    /\ prev' = out
    /\ out' = unique(out, reverse)
    /\ op' = "unique_again"
    /\ UNCHANGED <<prompts, excludes, replace_to, reverse>>
    /\ UNCHANGED cli_vars

NextFilters ==
    \/ ApplyMask
    \/ ApplyExclude
    \/ ApplyExcludeCommand
    \/ ApplySort
    \/ ApplyUnique
    \/ ApplyUniqueAgain

SpecFilters == InitFilters /\ [][NextFilters]_vars

\* ----------------------------------------------------------------- cli.py
InitCli ==
    /\ prompts = <<>>
    /\ op = "init"
    /\ excludes = <<>>
    /\ replace_to = <<>>
    /\ reverse = FALSE
    /\ out = <<>>
    /\ prev = <<>>
    /\ pc = "start"
    /\ args = Defaults
    /\ command_map = <<>>
    /\ pipeline = NoPipeline
    /\ runner = NoPipeline
    /\ exc = None
    /\ logged = FALSE
    /\ ran = FALSE
    /\ status = Running

\* an exception leaves the try block: Exception subclasses go to the except
\* clause, SystemExit goes straight to the finally clause.
Raise(e) ==
    /\ exc' = e
    /\ pc' = IF e = "SystemExit" THEN "finally" ELSE "except"

\* args = Commands.from_sys_argv(sys.argv[1:]); argparse exits on a bad
\* command line.
FromSysArgv ==
    /\ pc = "start"
    /\ \/ /\ \E a \in ArgsSet : args' = a
          /\ pc' = "hooks"
          /\ UNCHANGED exc
       \/ /\ Raise("SystemExit")
          /\ UNCHANGED args
    /\ UNCHANGED <<command_map, pipeline, runner, logged, ran, status>>
    /\ UNCHANGED filter_vars

\* cli_hooks.execute(cli_hooks.init)
ExecuteHooks ==
    /\ pc = "hooks"
    /\ \/ /\ pc' = "log_level"
          /\ UNCHANGED exc
       \/ Raise("Exception")
    /\ UNCHANGED <<args, command_map, pipeline, runner, logged, ran, status>>
    /\ UNCHANGED filter_vars

\* log_level = args.get_logger_level(); logger_root.setLevel(log_level)
get_logger_level ==
    /\ pc = "log_level"
    /\ \/ /\ pc' = "debug"
          /\ UNCHANGED exc
       \/ /\ args.verbose # 0
          /\ Raise("ValueError")
    /\ UNCHANGED <<args, command_map, pipeline, runner, logged, ran, status>>
    /\ UNCHANGED filter_vars

\* args.debug(); Runner.from_args(args) then asks args for its pipeline.
debug ==
    /\ pc = "debug"
    /\ pc' = "get_pipeline"
    /\ UNCHANGED <<args, command_map, pipeline, runner, exc, logged, ran, status>>
    /\ UNCHANGED filter_vars

\* get_pipeline, lines 205-216
BuildCommandMap ==
    /\ pc = "get_pipeline"
    /\ command_map' = dict(zip(command_ids, command_funcs))
    /\ pc' = "check_v2"
    /\ UNCHANGED <<args, pipeline, runner, exc, logged, ran, status>>
    /\ UNCHANGED filter_vars

\* `if self.filter in command_map` instead of `in command_ids`
CheckParserV2_in_map ==
    /\ pc = "check_v2"
    /\ IF args.use_parser_v2 /\ args.filter \in DOMAIN command_map
       THEN Raise("NotImplementedError")
       ELSE /\ pc' = "get_pipeline_from"
            /\ UNCHANGED exc
    /\ UNCHANGED <<args, command_map, pipeline, runner, logged, ran, status>>
    /\ UNCHANGED filter_vars

\* get_pipeline, lines 218-225
CheckParserV2 ==
    /\ pc = "check_v2"
    /\ IF args.use_parser_v2 /\ args.filter \in Range(command_ids)
       THEN Raise("NotImplementedError")
       ELSE /\ pc' = "get_pipeline_from"
            /\ UNCHANGED exc
    /\ UNCHANGED <<args, command_map, pipeline, runner, logged, ran, status>>
    /\ UNCHANGED filter_vars

\* get_pipeline, line 227
GetPipelineFrom ==
    /\ pc = "get_pipeline_from"
    /\ pipeline' = get_pipeline_from(args.use_parser_v2)
    /\ pc' = "append_roundup"
    /\ UNCHANGED <<args, command_map, runner, exc, logged, ran, status>>
    /\ UNCHANGED filter_vars

\* get_pipeline, lines 228-229
AppendRoundUp ==
    /\ pc = "append_roundup"
    /\ pipeline' = append_command(pipeline, construct("RoundUpCommand", args))
    /\ pc' = "append_filter"
    /\ UNCHANGED <<args, command_map, runner, exc, logged, ran, status>>
    /\ UNCHANGED filter_vars

\* get_pipeline, lines 231-233; a missing key raises KeyError
AppendFilter ==
    /\ pc = "append_filter"
    /\ IF args.filter = None
       THEN /\ pc' = "return"
            /\ UNCHANGED <<pipeline, exc>>
       ELSE IF args.filter \notin DOMAIN command_map
       THEN /\ Raise("KeyError")
            /\ UNCHANGED pipeline
       ELSE /\ pipeline' = append_command(pipeline, construct(command_map[args.filter], args))
            /\ pc' = "return"
            /\ UNCHANGED exc
    /\ UNCHANGED <<args, command_map, runner, logged, ran, status>>
    /\ UNCHANGED filter_vars

\* get_pipeline, line 235
ReturnPipeline ==
    /\ pc = "return"
    /\ runner' = pipeline
    /\ pc' = "run"
    /\ UNCHANGED <<args, command_map, pipeline, exc, logged, ran, status>>
    /\ UNCHANGED filter_vars

\* runner.run()
RunnerRun ==
    /\ pc = "run"
    /\ ran' = TRUE
    /\ \/ /\ pc' = "finally"
          /\ UNCHANGED exc
       \/ Raise("Exception")
    /\ UNCHANGED <<args, command_map, pipeline, runner, logged, status>>
    /\ UNCHANGED filter_vars

\* except Exception as e: logger.exception(...)
Except ==
    /\ pc = "except"
    /\ logged' = TRUE
    /\ pc' = "finally"
    /\ UNCHANGED <<args, command_map, pipeline, runner, exc, ran, status>>
    /\ UNCHANGED filter_vars

\* finally: sys.exit(1)
Finally ==
    /\ pc = "finally"
    /\ status' = 1
    /\ pc' = "exited"
    /\ UNCHANGED <<args, command_map, pipeline, runner, exc, logged, ran>>
    /\ UNCHANGED filter_vars

NextCli ==
    \/ FromSysArgv
    \/ ExecuteHooks
    \/ get_logger_level
    \/ debug
    \/ BuildCommandMap
    \/ CheckParserV2
    \/ GetPipelineFrom
    \/ AppendRoundUp
    \/ AppendFilter
    \/ ReturnPipeline
    \/ RunnerRun
    \/ Except
    \/ Finally

SpecCli == InitCli /\ [][NextCli]_vars

\* ------------------------------------------------- properties of the filters
\* the token's name contains at least one string of the exclude list
Matched(t) == \E e \in Range(excludes) : StrIn(e, t.name)
NotMatched(t) == ~Matched(t)

\* the first position of a name in the input
FirstSeen(n) == CHOOSE i \in 1..Len(prompts) :
                    /\ prompts[i].name = n
                    /\ \A j \in 1..(i - 1) : prompts[j].name # n

NamesOf(s) == {s[i].name : i \in 1..Len(s)}

\* C3: Exclude (the function and ExcludeCommand.execute) returns exactly the
\* tokens whose name contains no string of the exclude list, in input order.
ExcludeRemovesExactlyMatched ==
    op \in {"exclude", "ExcludeCommand"} => out = SelectSeq(prompts, NotMatched)

\* C9: with an empty exclude list Exclude (the function and
\* ExcludeCommand.execute) returns its input.
ExcludeEmptyIsIdentity ==
    (op \in {"exclude", "ExcludeCommand"} /\ excludes = <<>>) => out = prompts

\* C4: Mask returns a list of the same length; at each position the strength
\* is the input's, the name is the replacement string when the input name
\* contains an exclude string, and the token is the input token otherwise.
MaskReplacesInPlace ==
    op = "mask" =>
        /\ Len(out) = Len(prompts)
        /\ \A i \in 1..Len(prompts) :
              /\ out[i].strength = prompts[i].strength
              /\ out[i].id = prompts[i].id
              /\ IF Matched(prompts[i])
                 THEN out[i].name = replace_to
                 ELSE out[i] = prompts[i]

MaskWitness ==
    /\ op = "mask"
    /\ Len(prompts) = 3
    /\ Len(excludes) = 2
    /\ replace_to = <<"%">>
    /\ NotMatched(prompts[1])
    /\ ~StrIn(excludes[1], prompts[2].name)
    /\ StrIn(excludes[2], prompts[2].name)
    /\ prompts[3].name = <<"a", "b">>
    /\ out = <<prompts[1], replace(prompts[2], <<"%">>), replace(prompts[3], <<"%">>)>>

\* C5: sort returns a permutation of the input in which equal names are
\* contiguous, the groups are in first-seen order of the names, each group is
\* ordered by strength (ascending, descending with reverse), and tokens of a
\* group with equal strength keep their input order.
SortGroupsByName ==
    op = "sort" =>
        /\ Len(out) = Len(prompts)
        /\ Range(out) = Range(prompts)
        /\ \A i \in 1..Len(out) : \A j \in (i + 1)..Len(out) :
              /\ (out[i].name = out[j].name) =>
                     /\ \A k \in i..j : out[k].name = out[i].name
                     /\ IF reverse THEN out[i].strength >= out[j].strength
                                   ELSE out[i].strength <= out[j].strength
                     /\ (out[i].strength = out[j].strength) => out[i].id < out[j].id
              /\ (out[i].name # out[j].name) =>
                     FirstSeen(out[i].name) < FirstSeen(out[j].name)

SortWitness ==
    /\ op = "sort"
    /\ reverse
    /\ Len(prompts) = 3
    /\ prompts[1].name = prompts[3].name
    /\ prompts[2].name # prompts[1].name
    /\ prompts[1].strength < prompts[3].strength
    /\ out = <<prompts[3], prompts[1], prompts[2]>>

\* C6: unique returns one token per distinct name of the input, in first-seen
\* order of the names; the token kept has the minimum strength of its name
\* (the maximum with reverse) and is the first such token of the input.
UniqueKeepsExtreme ==
    op = "unique" =>
        /\ NamesOf(out) = NamesOf(prompts)
        /\ Len(out) = Cardinality(NamesOf(prompts))
        /\ \A i \in 1..Len(out) : \A j \in (i + 1)..Len(out) :
              FirstSeen(out[i].name) < FirstSeen(out[j].name)
        /\ \A i \in 1..Len(out) :
              /\ out[i] \in Range(prompts)
              /\ \A k \in 1..Len(prompts) :
                    (prompts[k].name = out[i].name) =>
                        /\ IF reverse THEN prompts[k].strength <= out[i].strength
                                      ELSE prompts[k].strength >= out[i].strength
                        /\ (prompts[k].strength = out[i].strength) => out[i].id <= k

UniqueWitness ==
    /\ op = "unique"
    /\ reverse
    /\ Len(prompts) = 3
    /\ prompts[1].name = prompts[2].name
    /\ prompts[2].name = prompts[3].name
    /\ prompts[1].strength < prompts[2].strength
    /\ prompts[2].strength = prompts[3].strength
    /\ out = <<prompts[2]>>

\* C8: applying unique to the result of unique, with the same reverse flag,
\* returns the same list.
UniqueIdempotent ==
    op = "unique_again" => out = prev

UniqueAgainWitness ==
    /\ op = "unique_again"
    /\ Len(prompts) = 3
    /\ prompts[1].name = prompts[3].name
    /\ prompts[2].name # prompts[1].name
    /\ prompts[3].strength < prompts[1].strength
    /\ Len(prev) = 2
    /\ out = <<prompts[3], prompts[2]>>

\* ------------------------------------------- properties of the command line
Last(s) == s[Len(s)]

\* the class of command_classes whose command_id is the identifier
ClassOf(f) == CHOOSE c \in Range(command_classes) : command_id[c] = f

\* C1: in every pipeline get_pipeline returns, the RoundUp command is the
\* last command of the list.
RoundUpIsLast ==
    runner # NoPipeline => Last(runner.commands).cls = "RoundUpCommand"

\* C2: with the V1 parser, the selected filter identifier is paired in
\* command_map with the constructor of the class that has this command_id,
\* the lookup raises no KeyError, and the command appended is an instance of
\* that class.
FilterSelectsOwnClass ==
    (~args.use_parser_v2 /\ args.filter # None) =>
          /\ command_map # <<>> =>
                /\ args.filter \in DOMAIN command_map
                /\ command_map[args.filter] = ClassOf(args.filter)
          /\ exc # "KeyError"
          /\ runner # NoPipeline => Last(runner.commands).cls = ClassOf(args.filter)

\* C7: once get_pipeline has checked a configuration with use_parser_v2 and
\* a filter, NotImplementedError is raised, no pipeline exists, none is
\* returned and the runner never runs; with use_parser_v2 and no filter
\* get_pipeline raises nothing and returns a V2 pipeline.
ParserV2RejectsFilters ==
    /\ (command_map # <<>> /\ pc # "check_v2"
            /\ args.use_parser_v2 /\ args.filter # None) =>
          /\ exc = "NotImplementedError"
          /\ pipeline = NoPipeline
          /\ runner = NoPipeline
          /\ ~ran
    /\ (command_map # <<>> /\ args.use_parser_v2 /\ args.filter = None) =>
          /\ exc \notin {"NotImplementedError", "KeyError"}
          /\ pc \in {"run", "except", "finally", "exited"} =>
                (runner # NoPipeline /\ runner.parser = "PromptPipelineV2")

ParserV2Witness ==
    /\ pc = "exited"
    /\ args.use_parser_v2
    /\ args.filter = "unique"
    /\ exc = "NotImplementedError"
    /\ logged
    /\ pipeline = NoPipeline

\* C10: the exit status is nonzero exactly when an exception was raised.
NonzeroExitIffError ==
    pc = "exited" => ((status # 0) <=> (exc # None))

====
